---- MODULE Spec2Model ----
(***************************************************************************)
(* State-machine model of the SOXL capital-split backtest engine           *)
(* (src/soxl_quant_system.py, class SOXLQuantTrader).                      *)
(*                                                                         *)
(* Units.  Dates are day numbers: day 0 is Monday 2025-01-06, so           *)
(* datetime.weekday() is d % 7.  Prices and money are integers of one      *)
(* common unit.  Percent thresholds are kept in tenths of a percent        *)
(* (3.5 -> 35) and split ratios in thousandths (0.049 -> 49), so           *)
(*   price * (1 + threshold/100)  is  price * (1000 + t) / 1000            *)
(*   capital * ratio              is  capital * r / 1000                   *)
(* and every comparison of the code is made on the numerators (exact       *)
(* arithmetic).  An absent value (None, "") is the empty sequence <<>>,    *)
(* a present value v is <<v>>.                                             *)
(***************************************************************************)
EXTENDS Integers, Naturals, Sequences, FiniteSets, TLC

VARIABLES
    positions,                  \* self.positions
    current_round,              \* self.current_round
    available_cash,             \* self.available_cash
    current_investment_capital, \* self.current_investment_capital
    trading_days_count,         \* self.trading_days_count
    current_mode,               \* self.current_mode / local current_mode
    initial_capital,            \* self.initial_capital
    pc,                         \* position inside run_backtest's loop body
    row_count,                  \* number of rows of soxl_backtest read so far
    current_date,               \* date of the row being processed
    close,                      \* row['Close'] of the row being processed
    prev_close,                 \* local prev_close (<<>> = None)
    current_week_friday,        \* local current_week_friday (<<>> = None)
    current_week,               \* local current_week
    rsi,                        \* readings: two_weeks_ago, prev_week, current_week
    daily_records,              \* local daily_records
    total_realized_pnl,         \* local total_realized_pnl
    cash_balance,               \* local cash_balance
    day,                        \* locals of the current iteration
    call                        \* last call of a pure function (function specs)

vars == <<positions, current_round, available_cash, current_investment_capital,
          trading_days_count, current_mode, initial_capital, pc, row_count,
          current_date, close, prev_close, current_week_friday, current_week,
          rsi, daily_records, total_realized_pnl, cash_balance, day, call>>

ledger == <<positions, current_round, available_cash, current_investment_capital,
            trading_days_count, current_mode, initial_capital>>

loop == <<row_count, current_date, close, prev_close, current_week_friday,
          current_week, rsi, daily_records, total_realized_pnl, cash_balance, day>>

(***************************************************************************)
(* Bounds of the model.                                                    *)
(***************************************************************************)
MaxRows == 5
MaxRowsLong == 10
MaxRowsRsi == 5
MaxRowsPatch == 5
MaxReading == 100
MaxRound == 10
StartDays == {1}
InitialCapitals == {2100}
InitialCapitalsLong == {5200}
Prices == {100, 102, 106}
PricesLong == {100, 106}
InitialCapitalsPatch == {20000}
PricesPatch == {1000, 1020, 1040, 1055}
Readings == {45, 55}

\* what get_rsi_from_reference returns: a value, or None
Present(values) == {<<v>> : v \in values}
ReadingsOrNone == Present(Readings) \cup {<<>>}
ReadingSamples == {0, 34, 35, 36, 40, 41, 45, 49, 50, 51, 55, 59, 60, 61, 65, 66, 70, 100}

Modes == {"SF", "AG"}

(***************************************************************************)
(* Configuration (SOXLQuantTrader.__init__).                               *)
(***************************************************************************)
sf_config ==
    [buy_threshold |-> 35, sell_threshold |-> 14, max_hold_days |-> 30,
     split_count |-> 7,
     split_ratios |-> <<49, 127, 230, 257, 28, 169, 140>>]

ag_config ==
    [buy_threshold |-> 36, sell_threshold |-> 35, max_hold_days |-> 7,
     split_count |-> 8,
     split_ratios |-> <<62, 134, 118, 148, 150, 182, 186, 20>>]

\* the holidays of self.us_holidays that fall into the modelled window:
\* 2025-01-09, 2025-01-20, 2025-02-17
us_holidays == {3, 14, 42}

mode_config(mode) == IF mode = "SF" THEN sf_config ELSE ag_config

\* get_current_config that ignores the regime in force
get_current_config_ag == ag_config

get_current_config == mode_config(current_mode)

(***************************************************************************)
(* Trading calendar.                                                       *)
(***************************************************************************)
\* is_trading_day that knows the weekends only
is_trading_day_weekends_only(date) == date % 7 < 5

is_trading_day(date) ==
    IF date % 7 >= 5 THEN FALSE
    ELSE IF date \in us_holidays THEN FALSE
    ELSE TRUE

\* the counting loop of check_sell_conditions: trading days in (from, to]
hold_days_between(from, to) ==
    Cardinality({t \in (from + 1)..to : is_trading_day(t)})

\* week-ending Friday of a date (run_backtest, check_backtest_starting_state)
week_friday(date) == date + ((4 - (date % 7)) % 7)

(***************************************************************************)
(* Regime classifier.                                                      *)
(***************************************************************************)
\* SAFE conditions whose third one also takes a newer reading of exactly 50
safe_conditions_at_50(current_rsi, prev_rsi) ==
    \/ (prev_rsi > 65 /\ prev_rsi > current_rsi)
    \/ (40 < prev_rsi /\ prev_rsi < 50 /\ prev_rsi > current_rsi)
    \/ (prev_rsi >= 50 /\ current_rsi <= 50)

safe_conditions(current_rsi, prev_rsi) ==
    \/ (prev_rsi > 65 /\ prev_rsi > current_rsi)
    \/ (40 < prev_rsi /\ prev_rsi < 50 /\ prev_rsi > current_rsi)
    \/ (prev_rsi >= 50 /\ current_rsi < 50)

aggressive_conditions(current_rsi, prev_rsi) ==
    \/ (prev_rsi < 50 /\ prev_rsi < current_rsi /\ current_rsi > 50)
    \/ (50 < prev_rsi /\ prev_rsi < 60 /\ prev_rsi < current_rsi)
    \/ (prev_rsi < 35 /\ prev_rsi < current_rsi)

\* determine_mode with the third SAFE condition read as prev_rsi > 50
determine_mode_strict50(current_rsi, prev_rsi, prev_mode) ==
    IF current_rsi = <<>> \/ prev_rsi = <<>> THEN "ValueError"
    ELSE IF \/ (prev_rsi[1] > 65 /\ prev_rsi[1] > current_rsi[1])
            \/ (40 < prev_rsi[1] /\ prev_rsi[1] < 50 /\ prev_rsi[1] > current_rsi[1])
            \/ (prev_rsi[1] > 50 /\ current_rsi[1] < 50)
    THEN "SF"
    ELSE IF aggressive_conditions(current_rsi[1], prev_rsi[1]) THEN "AG"
    ELSE prev_mode

\* determine_mode that keeps the previous regime when a reading is missing
determine_mode_keep_on_missing(current_rsi, prev_rsi, prev_mode) ==
    IF current_rsi = <<>> \/ prev_rsi = <<>> THEN prev_mode
    ELSE IF safe_conditions(current_rsi[1], prev_rsi[1]) THEN "SF"
    ELSE IF aggressive_conditions(current_rsi[1], prev_rsi[1]) THEN "AG"
    ELSE prev_mode

\* the readings are <<>> (None) or <<value>>; the result is the regime, or
\* "ValueError" when the function raises
determine_mode(current_rsi, prev_rsi, prev_mode) ==
    IF current_rsi = <<>> \/ prev_rsi = <<>> THEN "ValueError"
    ELSE IF safe_conditions(current_rsi[1], prev_rsi[1]) THEN "SF"
    ELSE IF aggressive_conditions(current_rsi[1], prev_rsi[1]) THEN "AG"
    ELSE prev_mode

\* update_mode: the trader's regime after the call ("None" = no regime yet).
\* current_rsi is what calculate_weekly_rsi returns, enough_weeks is
\* len(weekly_df) >= 15, prev_rsi is rsi.iloc[-2] of the weekly series.
update_mode(mode, current_rsi, enough_weeks, prev_rsi) ==
    IF current_rsi = <<>> THEN mode
    ELSE IF mode = "None" THEN (IF current_rsi[1] >= 50 THEN "SF" ELSE "AG")
    ELSE IF ~enough_weeks THEN mode
    ELSE LET new_mode == determine_mode(current_rsi, prev_rsi, mode)
         IN  IF new_mode = "ValueError" THEN mode ELSE new_mode

\* check_backtest_starting_state that takes the start regime from the start
\* week's reading alone
check_backtest_starting_state_single(start_week_rsi, prev_week_rsi, two_weeks_ago_rsi) ==
    IF prev_week_rsi = <<>> \/ two_weeks_ago_rsi = <<>>
    THEN [error |-> <<"no RSI data at the backtest start">>,
          start_mode |-> "SF", start_round |-> 1, start_week_rsi |-> <<>>,
          prev_week_rsi |-> <<>>, two_weeks_ago_rsi |-> <<>>]
    ELSE IF start_week_rsi = <<>>
    THEN [error |-> <<>>,
          start_mode |-> "SF", start_round |-> 1, start_week_rsi |-> <<>>,
          prev_week_rsi |-> <<>>, two_weeks_ago_rsi |-> <<>>]
    ELSE [error |-> <<>>,
          start_mode |-> IF start_week_rsi[1] >= 50 THEN "SF" ELSE "AG",
          start_round |-> 1, start_week_rsi |-> start_week_rsi,
          prev_week_rsi |-> prev_week_rsi, two_weeks_ago_rsi |-> two_weeks_ago_rsi]

\* check_backtest_starting_state on the three readings resolved for the start
\* week: the dict returned (error = <<>>: no "error" key).  With the two prior
\* readings present and the start week's reading None, the formatting of the
\* report raises and the handler returns the defaults without an error.
check_backtest_starting_state(start_week_rsi, prev_week_rsi, two_weeks_ago_rsi) ==
    IF prev_week_rsi = <<>> \/ two_weeks_ago_rsi = <<>>
    THEN [error |-> <<"no RSI data at the backtest start">>,
          start_mode |-> "SF", start_round |-> 1, start_week_rsi |-> <<>>,
          prev_week_rsi |-> <<>>, two_weeks_ago_rsi |-> <<>>]
    ELSE IF start_week_rsi = <<>>
    THEN [error |-> <<>>,
          start_mode |-> "SF", start_round |-> 1, start_week_rsi |-> <<>>,
          prev_week_rsi |-> <<>>, two_weeks_ago_rsi |-> <<>>]
    ELSE [error |-> <<>>,
          start_mode |-> determine_mode(prev_week_rsi, two_weeks_ago_rsi, "SF"),
          start_round |-> 1, start_week_rsi |-> start_week_rsi,
          prev_week_rsi |-> prev_week_rsi, two_weeks_ago_rsi |-> two_weeks_ago_rsi]

(***************************************************************************)
(* Capital & position ledger.                                              *)
(***************************************************************************)
\* calculate_position_size with the bound of the round test off by one
calculate_position_size_short(round_num) ==
    IF round_num < Len(get_current_config.split_ratios)
    THEN current_investment_capital * get_current_config.split_ratios[round_num]
    ELSE 0

\* capital * ratio, in thousandths of the money unit
calculate_position_size(round_num) ==
    IF round_num <= Len(get_current_config.split_ratios)
    THEN current_investment_capital * get_current_config.split_ratios[round_num]
    ELSE 0

\* can_buy_next_round without the test of the cash
can_buy_next_round_any_cash ==
    IF current_round > get_current_config.split_count THEN FALSE
    ELSE TRUE

can_buy_next_round ==
    IF current_round > get_current_config.split_count THEN FALSE
    ELSE IF available_cash * 1000 < calculate_position_size(current_round) THEN FALSE
    ELSE TRUE

\* execute_buy that forgets to deduct the fill cost from the cash
execute_buy_no_deduct(buy_price, date) ==
    LET target_amount == calculate_position_size(current_round)
        shares        == target_amount \div (1000 * buy_price)
        final_amount  == shares * buy_price
        position      == [round |-> current_round, buy_date |-> date,
                          buy_price |-> buy_price, shares |-> shares,
                          amount |-> final_amount, mode |-> current_mode]
    IN  IF ~can_buy_next_round \/ final_amount <= 0
        THEN [ok |-> FALSE, positions |-> positions,
              available_cash |-> available_cash, current_round |-> current_round]
        ELSE [ok |-> TRUE, positions |-> Append(positions, position),
              available_cash |-> available_cash,
              current_round |-> current_round + 1]

\* execute_buy without the check of a zero fill
execute_buy_no_zero_check(buy_price, date) ==
    LET target_amount == calculate_position_size(current_round)
        shares        == target_amount \div (1000 * buy_price)
        final_amount  == shares * buy_price
        position      == [round |-> current_round, buy_date |-> date,
                          buy_price |-> buy_price, shares |-> shares,
                          amount |-> final_amount, mode |-> current_mode]
    IN  IF ~can_buy_next_round
        THEN [ok |-> FALSE, positions |-> positions,
              available_cash |-> available_cash, current_round |-> current_round]
        ELSE [ok |-> TRUE, positions |-> Append(positions, position),
              available_cash |-> available_cash - final_amount,
              current_round |-> current_round + 1]

\* execute_buy that advances the round counter before it builds the position
execute_buy_round_first(buy_price, date) ==
    LET target_amount == calculate_position_size(current_round)
        shares        == target_amount \div (1000 * buy_price)
        final_amount  == shares * buy_price
        position      == [round |-> current_round + 1, buy_date |-> date,
                          buy_price |-> buy_price, shares |-> shares,
                          amount |-> final_amount, mode |-> current_mode]
    IN  IF ~can_buy_next_round \/ final_amount <= 0
        THEN [ok |-> FALSE, positions |-> positions,
              available_cash |-> available_cash, current_round |-> current_round]
        ELSE [ok |-> TRUE, positions |-> Append(positions, position),
              available_cash |-> available_cash - final_amount,
              current_round |-> current_round + 1]

\* execute_buy that consumes the round also when the fill is zero
execute_buy_round_on_zero(buy_price, date) ==
    LET target_amount == calculate_position_size(current_round)
        shares        == target_amount \div (1000 * buy_price)
        final_amount  == shares * buy_price
        position      == [round |-> current_round, buy_date |-> date,
                          buy_price |-> buy_price, shares |-> shares,
                          amount |-> final_amount, mode |-> current_mode]
    IN  IF ~can_buy_next_round
        THEN [ok |-> FALSE, positions |-> positions,
              available_cash |-> available_cash, current_round |-> current_round]
        ELSE IF final_amount <= 0
        THEN [ok |-> FALSE, positions |-> positions,
              available_cash |-> available_cash, current_round |-> current_round + 1]
        ELSE [ok |-> TRUE, positions |-> Append(positions, position),
              available_cash |-> available_cash - final_amount,
              current_round |-> current_round + 1]

\* execute_buy: the ledger after the call and the value returned
execute_buy(buy_price, date) ==
    LET target_amount == calculate_position_size(current_round)
        actual_amount == IF target_amount > available_cash * 1000
                         THEN available_cash * 1000
                         ELSE target_amount
        shares        == actual_amount \div (1000 * buy_price)
        final_amount  == shares * buy_price
        position      == [round |-> current_round, buy_date |-> date,
                          buy_price |-> buy_price, shares |-> shares,
                          amount |-> final_amount, mode |-> current_mode]
        refusal       == [ok |-> FALSE, positions |-> positions,
                          available_cash |-> available_cash,
                          current_round |-> current_round]
    IN  IF ~can_buy_next_round THEN refusal
        ELSE IF final_amount <= 0 THEN refusal
        ELSE [ok |-> TRUE, positions |-> Append(positions, position),
              available_cash |-> available_cash - final_amount,
              current_round |-> current_round + 1]

\* sell_intent with the parameters of the regime in force, not the position's
sell_intent_current_regime(position, daily_close, date) ==
    LET hold_days       == hold_days_between(position.buy_date, date)
        position_config == get_current_config
    IN  IF daily_close * 1000 >= position.buy_price * (1000 + position_config.sell_threshold)
        THEN <<[position |-> position, reason |-> "target", sell_price |-> daily_close]>>
        ELSE IF hold_days > position_config.max_hold_days
        THEN <<[position |-> position, reason |-> "hold", sell_price |-> daily_close]>>
        ELSE <<>>

\* sell_intent that tests the holding period first and with >=
sell_intent_hold_first(position, daily_close, date) ==
    LET hold_days       == hold_days_between(position.buy_date, date)
        position_config == IF position.mode = "SF" THEN sf_config ELSE ag_config
    IN  IF hold_days >= position_config.max_hold_days
        THEN <<[position |-> position, reason |-> "hold", sell_price |-> daily_close]>>
        ELSE IF daily_close * 1000 >= position.buy_price * (1000 + position_config.sell_threshold)
        THEN <<[position |-> position, reason |-> "target", sell_price |-> daily_close]>>
        ELSE <<>>

\* sell_intent that lets a lot stay one trading day longer before it expires
sell_intent_hold_late(position, daily_close, date) ==
    LET hold_days       == hold_days_between(position.buy_date, date)
        position_config == IF position.mode = "SF" THEN sf_config ELSE ag_config
    IN  IF daily_close * 1000 >= position.buy_price * (1000 + position_config.sell_threshold)
        THEN <<[position |-> position, reason |-> "target", sell_price |-> daily_close]>>
        ELSE IF hold_days > position_config.max_hold_days + 1
        THEN <<[position |-> position, reason |-> "hold", sell_price |-> daily_close]>>
        ELSE <<>>

\* the intent check_sell_conditions produces for one position (<<>> = none)
sell_intent(position, daily_close, date) ==
    LET hold_days       == hold_days_between(position.buy_date, date)
        position_config == IF position.mode = "SF" THEN sf_config ELSE ag_config
    IN  IF daily_close * 1000 >= position.buy_price * (1000 + position_config.sell_threshold)
        THEN <<[position |-> position, reason |-> "target", sell_price |-> daily_close]>>
        ELSE IF hold_days > position_config.max_hold_days
        THEN <<[position |-> position, reason |-> "hold", sell_price |-> daily_close]>>
        ELSE <<>>

RECURSIVE sell_intents(_, _, _)
sell_intents(ps, daily_close, date) ==
    IF ps = <<>> THEN <<>>
    ELSE sell_intent(Head(ps), daily_close, date)
         \o sell_intents(Tail(ps), daily_close, date)

check_sell_conditions(daily_close, date) ==
    sell_intents(positions, daily_close, date)

\* list.remove: drops the first element equal to x
RECURSIVE list_remove(_, _)
list_remove(ps, x) ==
    IF ps = <<>> THEN <<>>
    ELSE IF Head(ps) = x THEN Tail(ps)
    ELSE <<Head(ps)>> \o list_remove(Tail(ps), x)

\* execute_sell that credits the cost basis of the lot instead of the proceeds
execute_sell_credit_cost(ps, cash, sell_info) ==
    LET position == sell_info.position
        proceeds == position.shares * sell_info.sell_price
    IN  [positions |-> list_remove(ps, position),
         available_cash |-> cash + position.amount,
         proceeds |-> proceeds,
         sold_round |-> position.round]

\* execute_sell on a ledger (ps, cash): the ledger after it and the return value
execute_sell(ps, cash, sell_info) ==
    LET position == sell_info.position
        proceeds == position.shares * sell_info.sell_price
    IN  [positions |-> list_remove(ps, position),
         available_cash |-> cash + proceeds,
         proceeds |-> proceeds,
         sold_round |-> position.round]

(***************************************************************************)
(* run_backtest: the rows of the price series.  A row exists for every     *)
(* trading day; a weekday of the holiday list may have a row or not (the   *)
(* series is supplied from outside), weekends have none.                   *)
(***************************************************************************)
NextDates(date) ==
    {n \in (date + 1)..(date + 5) :
        /\ n % 7 < 5
        /\ \A m \in (date + 1)..(n - 1) : ~is_trading_day(m)}

RECURSIVE total_shares_of(_)
total_shares_of(ps) ==
    IF ps = <<>> THEN 0 ELSE Head(ps).shares + total_shares_of(Tail(ps))

RECURSIVE total_buy_cost_of(_)
total_buy_cost_of(ps) ==
    IF ps = <<>> THEN 0 ELSE Head(ps).amount + total_buy_cost_of(Tail(ps))

NoDay ==
    [daily_realized |-> 0, sold_positions |-> <<>>, current_round_before_buy |-> 0,
     buy_executed |-> FALSE, buy_price_executed |-> 0, buy_quantity |-> 0,
     buy_amount |-> 0, buy_order_price |-> 0]

NoCall == [op |-> "none"]

\* reset_portfolio, check_backtest_starting_state and the set-up of run_backtest
\* up to the loop; the start date is the date of the first row.  The three
\* readings of the start week are what get_rsi_from_reference returns.  When
\* the starting state carries an error the run returns it (the trader's
\* regime is still the None of __init__).
StartState(capitals, starts, closes, readings) ==
    /\ initial_capital \in capitals
    /\ positions = <<>>
    /\ available_cash = initial_capital
    /\ current_investment_capital = initial_capital
    /\ trading_days_count = 0
    /\ rsi \in [two_weeks_ago : readings, prev_week : readings, current_week : readings]
    /\ LET starting_state == check_backtest_starting_state(
                                 rsi.current_week, rsi.prev_week, rsi.two_weeks_ago)
       IN  IF starting_state.error # <<>>
           THEN current_mode = "None" /\ pc = "error" /\ current_round = 1
           ELSE /\ current_mode = starting_state.start_mode
                /\ current_round = starting_state.start_round
                /\ pc = "row"
    /\ row_count = 0
    /\ current_date \in starts
    /\ close = 0
    /\ prev_close \in closes
    /\ current_week_friday = <<>>
    /\ current_week = 0
    /\ daily_records = <<>>
    /\ total_realized_pnl = 0
    /\ cash_balance = initial_capital
    /\ day = NoDay
    /\ call = NoCall

\* a run over a reference table that resolves every reading
InitRun(capitals, starts, closes) ==
    StartState(capitals, starts, closes, Present(Readings))

\* the start of a row that leaves the capital base to a later step
NextRow_base_kept(prices, max_rows) ==
    /\ pc = "row"
    /\ row_count < max_rows
    /\ \E date \in (IF row_count = 0 THEN {current_date} ELSE NextDates(current_date)),
          price \in prices :
          /\ current_date' = date
          /\ close' = price
          /\ IF is_trading_day(date)
             THEN /\ trading_days_count' = trading_days_count + 1
                  /\ UNCHANGED current_investment_capital
             ELSE UNCHANGED <<trading_days_count, current_investment_capital>>
    /\ row_count' = row_count + 1
    /\ day' = NoDay
    /\ pc' = "week"
    /\ UNCHANGED <<positions, current_round, available_cash, current_mode,
                   initial_capital, prev_close, current_week_friday, current_week,
                   rsi, daily_records, total_realized_pnl, cash_balance, call>>

\* for i, (current_date, row) in enumerate(soxl_backtest.iterrows()):
\* the trading-day counter and the 10th-trading-day update of the capital base
NextRow(prices, max_rows) ==
    /\ pc = "row"
    /\ row_count < max_rows
    /\ \E date \in (IF row_count = 0 THEN {current_date} ELSE NextDates(current_date)),
          price \in prices :
          /\ current_date' = date
          /\ close' = price
          /\ IF is_trading_day(date)
             THEN /\ trading_days_count' = trading_days_count + 1
                  /\ IF trading_days_count' % 10 = 0 /\ trading_days_count' > 0
                     THEN current_investment_capital' =
                              available_cash + total_shares_of(positions) * price
                     ELSE UNCHANGED current_investment_capital
             ELSE UNCHANGED <<trading_days_count, current_investment_capital>>
    /\ row_count' = row_count + 1
    /\ day' = NoDay
    /\ pc' = "week"
    /\ UNCHANGED <<positions, current_round, available_cash, current_mode,
                   initial_capital, prev_close, current_week_friday, current_week,
                   rsi, daily_records, total_realized_pnl, cash_balance, call>>

\* a week boundary that keeps the regime in force when a reading is None
WeekBoundary_keep_regime(readings) ==
    /\ pc = "week"
    /\ LET this_week_friday == week_friday(current_date)
       IN  IF current_week_friday # <<this_week_friday>>
           THEN /\ current_week_friday' = <<this_week_friday>>
                /\ IF current_week_friday = <<>>
                   THEN rsi' = rsi
                   ELSE \E reading \in readings :
                            rsi' = [two_weeks_ago |-> rsi.prev_week,
                                    prev_week |-> rsi.current_week,
                                    current_week |-> reading]
                /\ IF rsi'.prev_week = <<>> \/ rsi'.two_weeks_ago = <<>>
                   THEN current_week' = current_week + 1 /\ UNCHANGED current_mode
                   ELSE /\ current_mode' =
                               determine_mode(rsi'.prev_week, rsi'.two_weeks_ago,
                                              current_mode)
                        /\ current_week' = current_week + 1
           ELSE UNCHANGED <<current_week_friday, rsi, current_mode, current_week>>
    /\ IF prev_close # <<>>
       THEN /\ pc' = "sell"
            /\ UNCHANGED prev_close
       ELSE /\ pc' = "row"
            /\ prev_close' = <<close>>
    /\ UNCHANGED <<positions, current_round, available_cash,
                   current_investment_capital, trading_days_count, initial_capital,
                   row_count, current_date, close, daily_records,
                   total_realized_pnl, cash_balance, day, call>>

\* a week boundary that classifies with the reading of the week that begins
WeekBoundary_current_reading(readings) ==
    /\ pc = "week"
    /\ LET this_week_friday == week_friday(current_date)
       IN  IF current_week_friday # <<this_week_friday>>
           THEN /\ current_week_friday' = <<this_week_friday>>
                /\ IF current_week_friday = <<>>
                   THEN rsi' = rsi
                   ELSE \E reading \in readings :
                            rsi' = [two_weeks_ago |-> rsi.prev_week,
                                    prev_week |-> rsi.current_week,
                                    current_week |-> reading]
                /\ IF rsi'.prev_week = <<>> \/ rsi'.two_weeks_ago = <<>>
                   THEN UNCHANGED <<current_mode, current_week>>
                   ELSE /\ current_mode' =
                               determine_mode(rsi'.current_week, rsi'.prev_week,
                                              current_mode)
                        /\ current_week' = current_week + 1
           ELSE UNCHANGED <<current_week_friday, rsi, current_mode, current_week>>
    /\ IF /\ current_week_friday # <<week_friday(current_date)>>
          /\ (rsi'.prev_week = <<>> \/ rsi'.two_weeks_ago = <<>>)
       THEN /\ pc' = "error"
            /\ UNCHANGED prev_close
       ELSE IF prev_close # <<>>
       THEN /\ pc' = "sell"
            /\ UNCHANGED prev_close
       ELSE /\ pc' = "row"
            /\ prev_close' = <<close>>
    /\ UNCHANGED <<positions, current_round, available_cash,
                   current_investment_capital, trading_days_count, initial_capital,
                   row_count, current_date, close, daily_records,
                   total_realized_pnl, cash_balance, day, call>>

\* the week boundary: readings of the two prior weeks and the classifier.
\* Row dates never skip a whole week, so the reading of one week ago is the
\* reading that was the current week's a week earlier.
\* When one of the two prior readings is None the run returns the error.
WeekBoundary(readings) ==
    /\ pc = "week"
    /\ LET this_week_friday == week_friday(current_date)
       IN  IF current_week_friday # <<this_week_friday>>
           THEN /\ current_week_friday' = <<this_week_friday>>
                /\ IF current_week_friday = <<>>
                   THEN rsi' = rsi
                   ELSE \E reading \in readings :
                            rsi' = [two_weeks_ago |-> rsi.prev_week,
                                    prev_week |-> rsi.current_week,
                                    current_week |-> reading]
                /\ IF rsi'.prev_week = <<>> \/ rsi'.two_weeks_ago = <<>>
                   THEN UNCHANGED <<current_mode, current_week>>
                   ELSE /\ current_mode' =
                               determine_mode(rsi'.prev_week, rsi'.two_weeks_ago,
                                              current_mode)
                        /\ current_week' = current_week + 1
           ELSE UNCHANGED <<current_week_friday, rsi, current_mode, current_week>>
    /\ IF /\ current_week_friday # <<week_friday(current_date)>>
          /\ (rsi'.prev_week = <<>> \/ rsi'.two_weeks_ago = <<>>)
       THEN /\ pc' = "error"
            /\ UNCHANGED prev_close
       ELSE IF prev_close # <<>>
       THEN /\ pc' = "sell"
            /\ UNCHANGED prev_close
       ELSE /\ pc' = "row"
            /\ prev_close' = <<close>>
    /\ UNCHANGED <<positions, current_round, available_cash,
                   current_investment_capital, trading_days_count, initial_capital,
                   row_count, current_date, close, daily_records,
                   total_realized_pnl, cash_balance, day, call>>

WeekUpdate == WeekBoundary(Present(Readings))

\* the sells of a day with the realized P&L instead of the proceeds added to
\* the recorded cash balance
RECURSIVE run_sells_pnl_to_balance(_, _)
run_sells_pnl_to_balance(acc, intents) ==
    IF intents = <<>> THEN acc
    ELSE LET sell_info    == Head(intents)
             r            == execute_sell(acc.positions, acc.available_cash, sell_info)
             realized_pnl == r.proceeds - sell_info.position.amount
         IN  run_sells_pnl_to_balance(
                 [positions |-> r.positions,
                  available_cash |-> r.available_cash,
                  daily_realized |-> acc.daily_realized + realized_pnl,
                  total_realized_pnl |-> acc.total_realized_pnl + realized_pnl,
                  cash_balance |-> acc.cash_balance + realized_pnl,
                  sold_rounds |-> Append(acc.sold_rounds, r.sold_round),
                  sold_positions |-> Append(acc.sold_positions,
                      [round |-> r.sold_round, sell_date |-> current_date,
                       sell_price |-> sell_info.sell_price,
                       realized_pnl |-> realized_pnl])],
                 Tail(intents))

\* for sell_info in sell_recommendations: execute_sell and the bookkeeping
RECURSIVE run_sells(_, _)
run_sells(acc, intents) ==
    IF intents = <<>> THEN acc
    ELSE LET sell_info    == Head(intents)
             r            == execute_sell(acc.positions, acc.available_cash, sell_info)
             realized_pnl == r.proceeds - sell_info.position.amount
         IN  run_sells(
                 [positions |-> r.positions,
                  available_cash |-> r.available_cash,
                  daily_realized |-> acc.daily_realized + realized_pnl,
                  total_realized_pnl |-> acc.total_realized_pnl + realized_pnl,
                  cash_balance |-> acc.cash_balance + r.proceeds,
                  sold_rounds |-> Append(acc.sold_rounds, r.sold_round),
                  sold_positions |-> Append(acc.sold_positions,
                      [round |-> r.sold_round, sell_date |-> current_date,
                       sell_price |-> sell_info.sell_price,
                       realized_pnl |-> realized_pnl])],
                 Tail(intents))

\* contract_round that lowers the counter by one for a batch of any size
contract_round_by_one(round, sold_rounds) ==
    IF sold_rounds # <<>>
    THEN (IF round - 1 > 1 THEN round - 1 ELSE 1)
    ELSE round

\* contract_round that goes back to the round of the first lot sold
contract_round_to_sold(round, sold_rounds) ==
    IF sold_rounds # <<>> THEN sold_rounds[1] ELSE round

\* the round counter after the sells of the day
contract_round(round, sold_rounds) ==
    IF sold_rounds # <<>>
    THEN (IF round - Len(sold_rounds) > 1 THEN round - Len(sold_rounds) ELSE 1)
    ELSE round

\* a sell phase that sets the order price and leaves the sells undone
SellPhase_sells_undone ==
    /\ pc = "sell"
    /\ day' = [day EXCEPT !.buy_order_price =
                              prev_close[1] * (1000 + get_current_config.buy_threshold)]
    /\ pc' = "buy"
    /\ UNCHANGED <<ledger, row_count, current_date, close, prev_close,
                   current_week_friday, current_week, rsi, daily_records,
                   total_realized_pnl, cash_balance, call>>

SellPhase ==
    /\ pc = "sell"
    /\ LET sell_recommendations == check_sell_conditions(close, current_date)
           r == run_sells([positions |-> positions, available_cash |-> available_cash,
                           daily_realized |-> 0,
                           total_realized_pnl |-> total_realized_pnl,
                           cash_balance |-> cash_balance,
                           sold_rounds |-> <<>>, sold_positions |-> <<>>],
                          sell_recommendations)
       IN  /\ positions' = r.positions
           /\ available_cash' = r.available_cash
           /\ total_realized_pnl' = r.total_realized_pnl
           /\ cash_balance' = r.cash_balance
           /\ current_round' = contract_round(current_round, r.sold_rounds)
           /\ day' = [day EXCEPT !.daily_realized = r.daily_realized,
                                 !.sold_positions = r.sold_positions,
                                 !.buy_order_price =
                                     prev_close[1] * (1000 + get_current_config.buy_threshold)]
    /\ pc' = "buy"
    /\ UNCHANGED <<current_investment_capital, trading_days_count, current_mode,
                   initial_capital, row_count, current_date, close, prev_close,
                   current_week_friday, current_week, rsi, daily_records, call>>

\* the buy of the day: can_buy_next_round, the order price against the close,
\* execute_buy at the close
BuyPhase ==
    /\ pc = "buy"
    /\ IF can_buy_next_round /\ day.buy_order_price > close * 1000
       THEN LET r        == execute_buy(close, current_date)
                position == r.positions[Len(r.positions)]
            IN  /\ positions' = r.positions
                /\ available_cash' = r.available_cash
                /\ current_round' = r.current_round
                /\ IF r.ok
                   THEN /\ cash_balance' = cash_balance - position.amount
                        /\ day' = [day EXCEPT
                               !.current_round_before_buy = current_round,
                               !.buy_executed = TRUE,
                               !.buy_price_executed = position.buy_price,
                               !.buy_quantity = position.shares,
                               !.buy_amount = position.amount]
                   ELSE /\ day' = [day EXCEPT !.current_round_before_buy = current_round]
                        /\ UNCHANGED cash_balance
       ELSE /\ day' = [day EXCEPT !.current_round_before_buy = current_round]
            /\ UNCHANGED <<positions, available_cash, current_round, cash_balance>>
    /\ pc' = "record"
    /\ UNCHANGED <<current_investment_capital, trading_days_count, current_mode,
                   initial_capital, row_count, current_date, close, prev_close,
                   current_week_friday, current_week, rsi, daily_records,
                   total_realized_pnl, call>>

\* daily_record = {...}; daily_records.append(daily_record)
make_daily_record ==
    LET total_shares   == total_shares_of(positions)
        position_value == total_shares * close
    IN  [date |-> current_date,
         week |-> current_week,
         mode |-> current_mode,
         current_round |->
             (LET cap == IF current_mode = "SF" THEN 7 ELSE 8
              IN  IF day.current_round_before_buy < cap
                  THEN day.current_round_before_buy ELSE cap),
         buy_order_price |-> day.buy_order_price,
         close_price |-> close,
         buy_executed_price |-> day.buy_price_executed,
         buy_quantity |-> day.buy_quantity,
         buy_amount |-> day.buy_amount,
         buy_round |-> IF day.buy_executed THEN day.current_round_before_buy ELSE 0,
         sell_date |-> <<>>,
         sell_executed_price |-> 0,
         holding_days |-> 0,
         holdings |-> total_shares,
         realized_pnl |-> 0,
         cumulative_realized |-> total_realized_pnl,
         daily_realized |-> day.daily_realized,
         position_value |-> position_value,
         cash_balance |-> cash_balance,
         total_assets |-> cash_balance + position_value]

RecordPhase ==
    /\ pc = "record"
    /\ daily_records' = Append(daily_records, make_daily_record)
    /\ IF day.sold_positions # <<>>
       THEN /\ pc' = "patch"
            /\ UNCHANGED prev_close
       ELSE /\ pc' = "row"
            /\ prev_close' = <<close>>
    /\ UNCHANGED <<ledger, row_count, current_date, close, current_week_friday,
                   current_week, rsi, total_realized_pnl, cash_balance, day, call>>

\* a back-patch that does not ask whether the record has a sell date already
RECURSIVE patch_from_any_record(_, _, _)
patch_from_any_record(records, i, sold_pos) ==
    IF i > Len(records) THEN records
    ELSE IF /\ records[i].buy_executed_price > 0
            /\ records[i].buy_quantity > 0
            /\ records[i].buy_round = sold_pos.round
         THEN [records EXCEPT
                  ![i].holding_days =
                      Cardinality({t \in records[i].date..sold_pos.sell_date :
                                      is_trading_day(t)}),
                  ![i].sell_date = <<sold_pos.sell_date>>,
                  ![i].sell_executed_price = sold_pos.sell_price,
                  ![i].realized_pnl = sold_pos.realized_pnl]
         ELSE patch_from_any_record(records, i + 1, sold_pos)

\* the back-patch of one sold lot: the first record that recorded a buy, has
\* no sell date yet and carries the lot's round.  The holding days are the
\* trading days of [record date, sell date]; the sell date is written without
\* its year and read back into the record's year, which gives the same date
\* for the dates of the modelled window.
RECURSIVE patch_from(_, _, _)
patch_from(records, i, sold_pos) ==
    IF i > Len(records) THEN records
    ELSE IF /\ records[i].buy_executed_price > 0
            /\ records[i].buy_quantity > 0
            /\ records[i].sell_date = <<>>
            /\ records[i].buy_round = sold_pos.round
         THEN [records EXCEPT
                  ![i].holding_days =
                      Cardinality({t \in records[i].date..sold_pos.sell_date :
                                      is_trading_day(t)}),
                  ![i].sell_date = <<sold_pos.sell_date>>,
                  ![i].sell_executed_price = sold_pos.sell_price,
                  ![i].realized_pnl = sold_pos.realized_pnl]
         ELSE patch_from(records, i + 1, sold_pos)

RECURSIVE back_patch(_, _)
back_patch(records, sold) ==
    IF sold = <<>> THEN records
    ELSE back_patch(patch_from(records, 1, Head(sold)), Tail(sold))

PatchPhase ==
    /\ pc = "patch"
    /\ daily_records' = back_patch(daily_records, day.sold_positions)
    /\ pc' = "row"
    /\ prev_close' = <<close>>
    /\ UNCHANGED <<ledger, row_count, current_date, close, current_week_friday,
                   current_week, rsi, total_realized_pnl, cash_balance, day, call>>

\* the price series is exhausted: the loop ends and the summary is built
Finish(max_rows) ==
    /\ pc = "row"
    /\ row_count = max_rows
    /\ pc' = "done"
    /\ UNCHANGED <<ledger, loop, call>>

\* what run_backtest returns: the error of the starting state or of a week
\* boundary (its text and the two values formatted into it), or the summary;
\* <<>> while the run has not returned
run_result ==
    IF pc = "error"
    THEN [error |->
             [text |-> IF row_count = 0 THEN "no RSI data at the backtest start"
                       ELSE "no RSI data",
              prev_week_rsi |-> rsi.prev_week,
              two_weeks_ago_rsi |-> rsi.two_weeks_ago]]
    ELSE IF pc = "done"
    THEN [trading_days |-> row_count,
          initial_capital |-> initial_capital,
          final_value |-> IF daily_records # <<>>
                          THEN daily_records[Len(daily_records)].total_assets
                          ELSE initial_capital,
          final_positions |-> Len(positions),
          daily_records |-> daily_records]
    ELSE <<>>

(***************************************************************************)
(* Specifications of a backtest run.  Spec takes every price of Prices on  *)
(* every row; SpecLong runs over more rows with the prices of PricesLong.  *)
(***************************************************************************)
Init == InitRun(InitialCapitals, StartDays, {<<>>, <<100>>})

Next ==
    \/ NextRow(Prices, MaxRows)
    \/ WeekUpdate
    \/ SellPhase
    \/ BuyPhase
    \/ RecordPhase
    \/ PatchPhase
    \/ Finish(MaxRows)

Spec == Init /\ [][Next]_vars

InitLong == InitRun(InitialCapitalsLong, StartDays, {<<100>>})

NextLong ==
    \/ NextRow(PricesLong, MaxRowsLong)
    \/ WeekUpdate
    \/ SellPhase
    \/ BuyPhase
    \/ RecordPhase
    \/ PatchPhase
    \/ Finish(MaxRowsLong)

SpecLong == InitLong /\ [][NextLong]_vars

(***************************************************************************)
(* SpecRsi: a run over a reference table in which the reading of any week  *)
(* may be unresolved (get_rsi_from_reference returns None).                *)
(***************************************************************************)
InitRsi == StartState(InitialCapitals, StartDays, {<<100>>}, ReadingsOrNone)

NextRsi ==
    \/ NextRow(PricesLong, MaxRowsRsi)
    \/ WeekBoundary(ReadingsOrNone)
    \/ SellPhase
    \/ BuyPhase
    \/ RecordPhase
    \/ PatchPhase
    \/ Finish(MaxRowsRsi)

SpecRsi == InitRsi /\ [][NextRsi]_vars

(***************************************************************************)
(* SpecPatch: a run over closes 2% to 5.5% apart, which lets a lot of a    *)
(* low round be sold while lots of higher rounds stay open.                *)
(***************************************************************************)
InitPatch == InitRun(InitialCapitalsPatch, StartDays, {<<1000>>})

NextPatch ==
    \/ NextRow(PricesPatch, MaxRowsPatch)
    \/ WeekUpdate
    \/ SellPhase
    \/ BuyPhase
    \/ RecordPhase
    \/ PatchPhase
    \/ Finish(MaxRowsPatch)

SpecPatch == InitPatch /\ [][NextPatch]_vars


(***************************************************************************)
(* Specification of the regime functions: the arguments of one call of     *)
(* determine_mode, update_mode or check_backtest_starting_state are drawn  *)
(* in the initial state, the action makes the call.  The trader is as      *)
(* constructed, with the regime the call of update_mode starts from.       *)
(***************************************************************************)
IdleRun(mode) ==
    /\ initial_capital = 9000
    /\ positions = <<>>
    /\ available_cash = initial_capital
    /\ current_investment_capital = initial_capital
    /\ trading_days_count = 0
    /\ rsi = [two_weeks_ago |-> <<50>>, prev_week |-> <<50>>, current_week |-> <<50>>]
    /\ current_mode = mode
    /\ current_round = 1
    /\ pc = "idle"
    /\ row_count = 0
    /\ current_date = 0
    /\ close = 0
    /\ prev_close = <<>>
    /\ current_week_friday = <<>>
    /\ current_week = 0
    /\ daily_records = <<>>
    /\ total_realized_pnl = 0
    /\ cash_balance = initial_capital
    /\ day = NoDay

InitMode ==
    /\ call \in [op : {"determine_mode"},
                  current_rsi : Present(0..MaxReading) \cup {<<>>},
                  prev_rsi : Present(0..MaxReading) \cup {<<>>},
                  prev_mode : Modes, result : {<<>>}]
            \cup
                 [op : {"update_mode"},
                  mode : Modes \cup {"None"},
                  current_rsi : Present(ReadingSamples) \cup {<<>>},
                  enough_weeks : BOOLEAN,
                  prev_rsi : Present(ReadingSamples), result : {<<>>}]
            \cup
                 [op : {"check_backtest_starting_state"},
                  start_week_rsi : Present(ReadingSamples) \cup {<<>>},
                  prev_week_rsi : Present(ReadingSamples) \cup {<<>>},
                  two_weeks_ago_rsi : Present(ReadingSamples) \cup {<<>>},
                  result : {<<>>}]
    /\ IdleRun(IF call.op = "update_mode" THEN call.mode ELSE "None")

DetermineMode ==
    /\ call.op = "determine_mode"
    /\ call.result = <<>>
    /\ call' = [call EXCEPT
                   !.result = <<determine_mode(call.current_rsi, call.prev_rsi,
                                               call.prev_mode)>>]
    /\ UNCHANGED <<ledger, loop, pc>>

UpdateMode ==
    /\ call.op = "update_mode"
    /\ call.result = <<>>
    /\ current_mode' = update_mode(current_mode, call.current_rsi,
                                   call.enough_weeks, call.prev_rsi)
    /\ call' = [call EXCEPT !.result = <<current_mode'>>]
    /\ UNCHANGED <<positions, current_round, available_cash,
                   current_investment_capital, trading_days_count,
                   initial_capital, loop, pc>>

StartingState ==
    /\ call.op = "check_backtest_starting_state"
    /\ call.result = <<>>
    /\ call' = [call EXCEPT
                   !.result = <<check_backtest_starting_state(
                                    call.start_week_rsi, call.prev_week_rsi,
                                    call.two_weeks_ago_rsi)>>]
    /\ UNCHANGED <<ledger, loop, pc>>

NextMode == DetermineMode \/ UpdateMode \/ StartingState

SpecMode == InitMode /\ [][NextMode]_vars

(***************************************************************************)
(* calculate_mdd.  Amounts are exact; a percentage is kept as the fraction *)
(* <<numerator, denominator>> of (peak - assets) * 100 over peak, and two  *)
(* percentages are compared by cross-multiplication.  An empty date string *)
(* is <<>>, a date d is <<d>>.                                             *)
(***************************************************************************)
MaxRecords == 4
Assets == {0, 50, 80, 100, 160}

frac_greater(a, b) == a[1] * b[2] > b[1] * a[2]

mdd_start ==
    [max_drawdown |-> <<0, 1>>, mdd_peak_date |-> <<>>, mdd_date |-> <<>>,
     mdd_value |-> 0, overall_max_assets |-> 0, overall_peak_date |-> <<>>,
     current_peak_assets |-> 0, current_peak_date |-> <<>>]

\* a loop body that also takes a drawdown equal to the largest one so far
mdd_step_on_ties(acc, record) ==
    LET current_assets == record.total_assets
        a1 == IF current_assets > acc.overall_max_assets
              THEN [acc EXCEPT !.overall_max_assets = current_assets,
                               !.overall_peak_date = <<record.date>>]
              ELSE acc
        a2 == IF current_assets > a1.current_peak_assets
              THEN [a1 EXCEPT !.current_peak_assets = current_assets,
                              !.current_peak_date = <<record.date>>]
              ELSE a1
        drawdown == <<(a2.current_peak_assets - current_assets) * 100,
                      a2.current_peak_assets>>
    IN  IF a2.current_peak_assets > 0 /\ ~frac_greater(a2.max_drawdown, drawdown)
        THEN [a2 EXCEPT !.max_drawdown = drawdown,
                        !.mdd_date = <<record.date>>,
                        !.mdd_value = current_assets,
                        !.mdd_peak_date = a2.current_peak_date]
        ELSE a2

\* the body of "for record in daily_records"
mdd_step(acc, record) ==
    LET current_assets == record.total_assets
        a1 == IF current_assets > acc.overall_max_assets
              THEN [acc EXCEPT !.overall_max_assets = current_assets,
                               !.overall_peak_date = <<record.date>>]
              ELSE acc
        a2 == IF current_assets > a1.current_peak_assets
              THEN [a1 EXCEPT !.current_peak_assets = current_assets,
                              !.current_peak_date = <<record.date>>]
              ELSE a1
        drawdown == <<(a2.current_peak_assets - current_assets) * 100,
                      a2.current_peak_assets>>
    IN  IF a2.current_peak_assets > 0 /\ frac_greater(drawdown, a2.max_drawdown)
        THEN [a2 EXCEPT !.max_drawdown = drawdown,
                        !.mdd_date = <<record.date>>,
                        !.mdd_value = current_assets,
                        !.mdd_peak_date = a2.current_peak_date]
        ELSE a2

RECURSIVE mdd_pass(_, _, _)
mdd_pass(records, i, acc) ==
    IF i > Len(records) THEN acc
    ELSE mdd_pass(records, i + 1, mdd_step(acc, records[i]))

calculate_mdd(records) ==
    IF records = <<>>
    THEN [mdd_percent |-> <<0, 1>>, mdd_date |-> <<>>, mdd_value |-> 0,
          mdd_peak_date |-> <<>>, overall_peak_date |-> <<>>,
          overall_peak_value |-> 0]
    ELSE LET acc == mdd_pass(records, 1, mdd_start)
         IN  [mdd_percent |-> acc.max_drawdown, mdd_date |-> acc.mdd_date,
              mdd_value |-> acc.mdd_value, mdd_peak_date |-> acc.mdd_peak_date,
              overall_peak_date |-> acc.overall_peak_date,
              overall_peak_value |-> acc.overall_max_assets]

\* calls of calculate_mdd on record sequences of up to MaxRecords days, the
\* records dated by consecutive days
AssetRecords ==
    UNION {{[i \in 1..n |-> [date |-> i, total_assets |-> a[i]]] :
               a \in [1..n -> Assets]} : n \in 0..MaxRecords}

InitMdd ==
    /\ call \in [op : {"calculate_mdd"}, daily_records : AssetRecords,
                  result : {<<>>}]
    /\ IdleRun("None")

CalculateMdd ==
    /\ call.op = "calculate_mdd"
    /\ call.result = <<>>
    /\ call' = [call EXCEPT !.result = <<calculate_mdd(call.daily_records)>>]
    /\ UNCHANGED <<ledger, loop, pc>>

NextMdd == CalculateMdd

SpecMdd == InitMdd /\ [][NextMdd]_vars

(***************************************************************************)
(* get_rsi_from_reference.  The table maps a year to its entry, an entry   *)
(* has a list of weeks (<<weeks>>) or no 'weeks' key (<<>>); a week has    *)
(* start, end and rsi, where rsi is <<v>> or, for a value that float()     *)
(* cannot convert (null), <<>>.  The conversion then raises, the handler   *)
(* returns None: the value returned for a week is its rsi field.           *)
(***************************************************************************)
MaxWeeks == 2
TableYears == {2024, 2025}
LookupDates == {0, 4, 8, 11, 22}
WeekEntries ==
    UNION {{[start |-> iv[1], end |-> iv[2], rsi |-> r] : r \in {<<40 + iv[1]>>, <<>>}} :
              iv \in {<<2, 6>>, <<9, 13>>, <<16, 20>>}}
WeekLists == UNION {[1..n -> WeekEntries] : n \in 0..MaxWeeks}
YearEntries == {[weeks |-> <<>>]} \cup {[weeks |-> <<list>>] : list \in WeekLists}
Tables == UNION {[ys -> YearEntries] : ys \in SUBSET TableYears}

\* available_years.sort(reverse=True)
RECURSIVE sorted_reverse(_)
sorted_reverse(years) ==
    IF years = {} THEN <<>>
    ELSE LET y == CHOOSE x \in years : \A z \in years : z <= x
         IN  <<y>> \o sorted_reverse(years \ {y})

\* for week_data in weeks: the first week whose interval holds the date
RECURSIVE week_containing(_, _)
week_containing(weeks, date) ==
    IF weeks = <<>> THEN <<>>
    ELSE IF Head(weeks).start <= date /\ date <= Head(weeks).end
    THEN <<Head(weeks)>>
    ELSE week_containing(Tail(weeks), date)

\* step 1: the years from the newest on
RECURSIVE exact_week(_, _, _)
exact_week(years, rsi_data, date) ==
    IF years = <<>> THEN <<>>
    ELSE LET entry == rsi_data[Head(years)]
             found == IF entry.weeks = <<>> THEN <<>>
                      ELSE week_containing(entry.weeks[1], date)
         IN  IF found # <<>> THEN found
             ELSE exact_week(Tail(years), rsi_data, date)

\* all_weeks: the weeks of all years, the newest year first
RECURSIVE collect_weeks(_, _)
collect_weeks(years, rsi_data) ==
    IF years = <<>> THEN <<>>
    ELSE (IF rsi_data[Head(years)].weeks = <<>> THEN <<>>
          ELSE rsi_data[Head(years)].weeks[1])
             \o collect_weeks(Tail(years), rsi_data)

\* all_weeks.sort(key=lambda x: x['end']): a stable sort
RECURSIVE insert_by_end(_, _)
insert_by_end(sorted, week) ==
    IF sorted = <<>> THEN <<week>>
    ELSE IF Head(sorted).end <= week.end
    THEN <<Head(sorted)>> \o insert_by_end(Tail(sorted), week)
    ELSE <<week>> \o sorted

RECURSIVE sort_by_end(_, _)
sort_by_end(sorted, weeks) ==
    IF weeks = <<>> THEN sorted
    ELSE sort_by_end(insert_by_end(sorted, Head(weeks)), Tail(weeks))

\* for week_data in reversed(all_weeks): the first with end <= date
RECURSIVE nearest_earlier(_, _, _)
nearest_earlier(all_weeks, i, date) ==
    IF i = 0 THEN <<>>
    ELSE IF all_weeks[i].end <= date THEN <<all_weeks[i]>>
    ELSE nearest_earlier(all_weeks, i - 1, date)

\* a look-up that gives up when the date precedes every week
get_rsi_from_reference_no_latest(date, rsi_data) ==
    IF DOMAIN rsi_data = {} THEN <<>>
    ELSE LET available_years == sorted_reverse(DOMAIN rsi_data)
             exact     == exact_week(available_years, rsi_data, date)
             all_weeks == sort_by_end(<<>>, collect_weeks(available_years, rsi_data))
             earlier   == nearest_earlier(all_weeks, Len(all_weeks), date)
         IN  IF exact # <<>> THEN exact[1].rsi
             ELSE IF earlier # <<>> THEN earlier[1].rsi
             ELSE <<>>

get_rsi_from_reference(date, rsi_data) ==
    IF DOMAIN rsi_data = {} THEN <<>>
    ELSE LET available_years == sorted_reverse(DOMAIN rsi_data)
             exact     == exact_week(available_years, rsi_data, date)
             all_weeks == sort_by_end(<<>>, collect_weeks(available_years, rsi_data))
             earlier   == nearest_earlier(all_weeks, Len(all_weeks), date)
         IN  IF exact # <<>> THEN exact[1].rsi
             ELSE IF earlier # <<>> THEN earlier[1].rsi
             ELSE IF all_weeks # <<>> THEN all_weeks[Len(all_weeks)].rsi
             ELSE <<>>

InitLookup ==
    /\ call \in [op : {"get_rsi_from_reference"}, date : LookupDates,
                  rsi_data : Tables, result : {<<>>}]
    /\ IdleRun("None")

GetRsiFromReference ==
    /\ call.op = "get_rsi_from_reference"
    /\ call.result = <<>>
    /\ call' = [call EXCEPT
                   !.result = <<get_rsi_from_reference(call.date, call.rsi_data)>>]
    /\ UNCHANGED <<ledger, loop, pc>>

NextLookup == GetRsiFromReference

SpecLookup == InitLookup /\ [][NextLookup]_vars

(***************************************************************************)
(* C1.  determine_mode(newer, older, prev) is a first-match rule table:    *)
(* SAFE when (older > 65 and older > newer) or (40 < older < 50 and older  *)
(* > newer) or (older >= 50 and newer < 50); otherwise AGGRESSIVE when     *)
(* (older < 50 and older < newer and newer > 50) or (50 < older < 60 and   *)
(* older < newer) or (older < 35 and older < newer); otherwise the         *)
(* previous regime.  The SAFE group is decided first.                      *)
(***************************************************************************)
C1_RuleTable ==
    (/\ call.op = "determine_mode" /\ call.result # <<>>
     /\ call.current_rsi # <<>> /\ call.prev_rsi # <<>>) =>
        LET newer == call.current_rsi[1]
            older == call.prev_rsi[1]
            safe  == \/ (older > 65 /\ older > newer)
                     \/ (older > 40 /\ older < 50 /\ older > newer)
                     \/ (older >= 50 /\ newer < 50)
            aggr  == \/ (older < 50 /\ older < newer /\ newer > 50)
                     \/ (older > 50 /\ older < 60 /\ older < newer)
                     \/ (older < 35 /\ older < newer)
        IN  /\ safe => call.result = <<"SF">>
            /\ (~safe /\ aggr) => call.result = <<"AG">>
            /\ (~safe /\ ~aggr) => call.result = <<call.prev_mode>>

\* the scenario of the spec: older = 70, newer = 60, previous AGGRESSIVE -> SAFE
C1_Witness ==
    /\ call.op = "determine_mode"
    /\ call.prev_rsi = <<70>>
    /\ call.current_rsi = <<60>>
    /\ call.prev_mode = "AG"
    /\ call.result = <<"SF">>


(***************************************************************************)
(* C2.  As stated: available cash plus the cost bases of the open          *)
(* positions never exceeds the initial capital.                            *)
(***************************************************************************)
C2_NeverAboveInitialCapital ==
    available_cash + total_buy_cost_of(positions) <= initial_capital

(***************************************************************************)
(* C2, amended.  Available cash plus the cost bases of the open positions  *)
(* never exceeds the initial capital plus the cumulative realized P&L of   *)
(* the lots sold so far: buys, regime changes and rebalancings add         *)
(* nothing, a sell adds exactly its realized profit.                       *)
(***************************************************************************)
C2_NoMoneyCreated ==
    available_cash + total_buy_cost_of(positions)
        <= initial_capital + total_realized_pnl

\* lots are open after a sell at a profit and after a rebalancing
C2_Witness ==
    /\ total_realized_pnl > 0
    /\ positions # <<>>
    /\ trading_days_count >= 10
    /\ available_cash + total_buy_cost_of(positions) > initial_capital

(***************************************************************************)
(* C3.  As stated: the round counter is at most the split count of the     *)
(* regime in force + 1 in every reachable state.                           *)
(***************************************************************************)
C3_RoundWithinSplitOfRegime ==
    current_round <= mode_config(current_mode).split_count + 1

(***************************************************************************)
(* C3, amended.  The round counter is between 1 and 9 (the larger split    *)
(* count + 1) in every reachable state, and at most the split count of     *)
(* the regime in force + 1 right after every buy; a week-boundary change   *)
(* from AGGRESSIVE to SAFE keeps the counter, which can then be 9, the     *)
(* SAFE split count + 2.                                                   *)
(***************************************************************************)
C3_RoundBound ==
    /\ current_round >= 1
    /\ current_round <= ag_config.split_count + 1
    /\ (pc = "record" /\ day.buy_executed) =>
           current_round <= mode_config(current_mode).split_count + 1

\* the counter kept at 9 under SAFE
C3_Witness ==
    /\ current_mode = "SF"
    /\ current_round = 9
    /\ Len(positions) = 8

(***************************************************************************)
(* C4.  Every position created by execute_buy has a share count > 0 and a  *)
(* cost basis equal to fill price x shares, which is at most the cash      *)
(* available immediately before the buy; available cash is >= 0 in every   *)
(* reachable state.                                                        *)
(***************************************************************************)
C4_PositionSound ==
    /\ [](/\ available_cash >= 0
          /\ \A i \in 1..Len(positions) :
                /\ positions[i].shares > 0
                /\ positions[i].amount = positions[i].buy_price * positions[i].shares)
    /\ [][Len(positions') > Len(positions) =>
              positions'[Len(positions')].amount <= available_cash]_vars

\* a lot has just been bought with part of the cash
C4_Witness ==
    /\ pc = "record"
    /\ day.buy_executed
    /\ positions[Len(positions)].shares = day.buy_quantity
    /\ day.buy_quantity > 0
    /\ available_cash > 0


(***************************************************************************)
(* C5.  A successful execute_buy(price, date) with round counter r takes   *)
(* amount = min(position_size(r), cash) and shares = floor(amount /        *)
(* price), deducts exactly shares x price from the cash, appends one       *)
(* position tagged with r, the date, the price and the regime in force at  *)
(* the end of the position list, and adds exactly 1 to the round counter.  *)
(***************************************************************************)
C5_BuyEffect ==
    [][(pc = "buy" /\ day'.buy_executed) =>
          LET size   == calculate_position_size(current_round)
              amount == IF size < available_cash * 1000
                        THEN size ELSE available_cash * 1000
              shares == amount \div (1000 * close)
          IN  /\ available_cash' = available_cash - shares * close
              /\ positions' = Append(positions,
                     [round |-> current_round, buy_date |-> current_date,
                      buy_price |-> close, shares |-> shares,
                      amount |-> shares * close, mode |-> current_mode])
              /\ current_round' = current_round + 1]_vars

\* the first buy of a run: one lot of round 1, the counter at 2
C5_Witness ==
    /\ pc = "record"
    /\ day.buy_executed
    /\ Len(positions) = 1
    /\ positions[1].round = 1
    /\ current_round = 2
    /\ available_cash = initial_capital - positions[1].shares * positions[1].buy_price

(***************************************************************************)
(* C6.  When execute_buy refuses, because can_buy is false or because the  *)
(* affordable share count is zero, it leaves the cash, the position list,  *)
(* the round counter and the investment-capital base unchanged; a          *)
(* degenerate fill does not advance the round counter.                     *)
(***************************************************************************)
C6_RefusalChangesNothing ==
    /\ [](pc = "buy" =>
             LET r == execute_buy(close, current_date)
             IN  ~r.ok => /\ r.positions = positions
                          /\ r.available_cash = available_cash
                          /\ r.current_round = current_round)
    /\ [][(pc = "buy" /\ ~day'.buy_executed) =>
              UNCHANGED <<available_cash, positions, current_round,
                          current_investment_capital>>]_vars

\* execute_buy was called in the run and refused a zero fill
C6_Witness ==
    /\ pc = "record"
    /\ ~day.buy_executed
    /\ can_buy_next_round
    /\ day.buy_order_price > close * 1000
    /\ calculate_position_size(current_round) < 1000 * close
    /\ day.current_round_before_buy = current_round

(***************************************************************************)
(* C7.  As stated: when the round counter is within the split count of     *)
(* the regime in force but position_size(round) exceeds the available      *)
(* cash, execute_buy fills with the available cash (shares = floor(cash /  *)
(* price)) and, on a positive fill, creates the position and consumes the  *)
(* round counter.                                                          *)
(***************************************************************************)
C7_CashCappedFill ==
    (/\ pc = "buy"
     /\ current_round <= mode_config(current_mode).split_count
     /\ calculate_position_size(current_round) > available_cash * 1000
     /\ available_cash \div close > 0) =>
        LET r == execute_buy(close, current_date)
        IN  /\ r.ok
            /\ Len(r.positions) = Len(positions) + 1
            /\ r.positions[Len(r.positions)].shares = available_cash \div close
            /\ r.current_round = current_round + 1

(***************************************************************************)
(* C8.  For every round r >= 1, position_size(r) is the investment-capital *)
(* base x split_ratio[r-1] of the regime in force when r <= its split      *)
(* count and 0 beyond; each regime's ratio list has split_count entries    *)
(* that sum to 1, so position_size(r) never exceeds the base and the       *)
(* sizes of the rounds 1..split_count add up to the base.                  *)
(***************************************************************************)
RECURSIVE sum_of(_)
sum_of(xs) == IF xs = <<>> THEN 0 ELSE Head(xs) + sum_of(Tail(xs))

C8_PositionSize ==
    LET cfg == mode_config(current_mode)
    IN  /\ \A r \in 1..MaxRound :
              /\ calculate_position_size(r) =
                     (IF r <= cfg.split_count
                      THEN current_investment_capital * cfg.split_ratios[r] ELSE 0)
              /\ calculate_position_size(r) <= current_investment_capital * 1000
        /\ \A c \in {sf_config, ag_config} :
              Len(c.split_ratios) = c.split_count /\ sum_of(c.split_ratios) = 1000
        /\ sum_of([r \in 1..cfg.split_count |-> calculate_position_size(r)])
               = current_investment_capital * 1000

\* sizes taken from a rebalanced base, under AGGRESSIVE
C8_Witness ==
    /\ current_investment_capital # initial_capital
    /\ current_investment_capital > 0
    /\ current_mode = "AG"
    /\ pc = "buy"
    /\ calculate_position_size(current_round) > 0


(***************************************************************************)
(* C9.  check_sell_conditions yields, for each open position               *)
(* independently, a sell intent iff the day's close >= the position's      *)
(* fill price x (1 + sell threshold/100) of the regime captured at         *)
(* acquisition (reason: target reached) or the number of trading days in   *)
(* (acquisition date, current date] is strictly greater than that          *)
(* regime's max-hold-days (reason: holding period exceeded); when both     *)
(* hold the reason is target reached; every intent's sell price is the     *)
(* day's close; a position meeting neither gets no intent and stays open.  *)
(***************************************************************************)
TargetReached(p, c, threshold) == c * 1000 >= p.buy_price * (1000 + threshold)

HoldingDays(p, d) ==
    Cardinality({t \in (p.buy_date + 1)..d : t % 7 \notin {5, 6} /\ t \notin us_holidays})

OwnTarget(p) ==
    TargetReached(p, close, IF p.mode = "SF" THEN sf_config.sell_threshold
                            ELSE ag_config.sell_threshold)

OwnExpiry(p) ==
    HoldingDays(p, current_date) > (IF p.mode = "SF" THEN sf_config.max_hold_days
                                    ELSE ag_config.max_hold_days)

KeptByOwnRegime(p) == ~OwnTarget(p) /\ ~OwnExpiry(p)

C9_SellIntents ==
    /\ [](pc = "sell" =>
            LET intents == check_sell_conditions(close, current_date)
                due     == SelectSeq(positions, LAMBDA p : ~KeptByOwnRegime(p))
            IN  /\ Len(intents) = Len(due)
                /\ \A j \in 1..Len(intents) :
                      /\ intents[j].position = due[j]
                      /\ intents[j].sell_price = close
                      /\ intents[j].reason =
                             (IF OwnTarget(due[j]) THEN "target" ELSE "hold"))
    /\ [][pc = "sell" => positions' = SelectSeq(positions, KeptByOwnRegime)]_vars

\* after a regime change a lot of the old regime is past its holding period
\* and at its target on the same day
C9_Witness ==
    /\ pc = "sell"
    /\ \E i \in 1..Len(positions) :
          /\ OwnTarget(positions[i])
          /\ OwnExpiry(positions[i])
          /\ positions[i].mode # current_mode

(***************************************************************************)
(* C10.  As stated: every regime parameter used in a decision is that of   *)
(* the regime in force on the day, never that of the regime stored on a    *)
(* position; positions bought under the old regime are judged with the     *)
(* new regime's sell threshold and max-hold-days.                          *)
(***************************************************************************)
KeptByRegimeInForce(p) ==
    /\ ~TargetReached(p, close, mode_config(current_mode).sell_threshold)
    /\ ~(HoldingDays(p, current_date) > mode_config(current_mode).max_hold_days)

C10_SellsByRegimeInForce ==
    [][pc = "sell" => positions' = SelectSeq(positions, KeptByRegimeInForce)]_vars

(***************************************************************************)
(* C10, amended.  The buy threshold, the split count and the split ratios  *)
(* used on a day are those of the regime in force on that day; the sell    *)
(* threshold and the max-hold-days used for a position are those of the    *)
(* regime stored on the position at its acquisition, so after a regime     *)
(* change the positions bought under the old regime are still judged with  *)
(* the old regime's sell threshold and max-hold-days.                      *)
(***************************************************************************)
C10_ParametersUsed ==
    /\ [][pc = "sell" =>
              /\ positions' = SelectSeq(positions, KeptByOwnRegime)
              /\ day'.buy_order_price =
                     prev_close[1] * (1000 + mode_config(current_mode).buy_threshold)]_vars
    /\ [][pc = "buy" =>
              (day'.buy_executed <=>
                  LET cfg == mode_config(current_mode)
                  IN  /\ current_round <= cfg.split_count
                      /\ available_cash * 1000 >=
                             current_investment_capital * cfg.split_ratios[current_round]
                      /\ day.buy_order_price > close * 1000
                      /\ (current_investment_capital * cfg.split_ratios[current_round])
                             \div (1000 * close) > 0)]_vars

\* after a regime change a lot of the old regime is kept by its own regime's
\* parameters where the regime in force would sell it
C10_Witness ==
    /\ pc = "buy"
    /\ \E i \in 1..Len(positions) :
          /\ positions[i].mode # current_mode
          /\ positions[i].buy_date < current_date
          /\ KeptByOwnRegime(positions[i])
          /\ ~KeptByRegimeInForce(positions[i])

(***************************************************************************)
(* C11.  execute_sell(intent) removes exactly the intent's position from   *)
(* the open list (one position fewer, the others and their order           *)
(* unchanged), credits exactly shares x sell price to the cash and returns *)
(* (proceeds, the position's round number); so a buy at price b followed   *)
(* at once by a sell of that lot at price s changes the cash by exactly    *)
(* (s - b) x shares against the cash before the buy.                       *)
(***************************************************************************)
RemoveAt(ps, i) == SubSeq(ps, 1, i - 1) \o SubSeq(ps, i + 1, Len(ps))

C11_SellEffect ==
    /\ [](pc = "sell" =>
            \A i \in 1..Len(positions), s \in Prices :
                LET r == execute_sell(positions, available_cash,
                             [position |-> positions[i], reason |-> "target",
                              sell_price |-> s])
                IN  /\ r.positions = RemoveAt(positions, i)
                    /\ r.available_cash = available_cash + positions[i].shares * s
                    /\ r.proceeds = positions[i].shares * s
                    /\ r.sold_round = positions[i].round)
    /\ [](pc = "buy" =>
            \A s \in Prices :
                LET b    == execute_buy(close, current_date)
                    lot  == b.positions[Len(b.positions)]
                    sold == execute_sell(b.positions, b.available_cash,
                                [position |-> lot, reason |-> "target",
                                 sell_price |-> s])
                IN  b.ok => /\ sold.available_cash =
                                   available_cash + (s - close) * lot.shares
                            /\ sold.positions = positions)
    /\ [][pc = "sell" =>
              LET due == SelectSeq(positions, LAMBDA p : ~KeptByOwnRegime(p))
              IN  /\ Len(positions') = Len(positions) - Len(due)
                  /\ available_cash' = available_cash + total_shares_of(due) * close
                  /\ Len(day'.sold_positions) = Len(due)
                  /\ \A j \in 1..Len(due) :
                        day'.sold_positions[j].round = due[j].round]_vars

\* one lot has been sold from behind a lot that stays open
C11_Witness ==
    /\ pc = "buy"
    /\ Len(day.sold_positions) = 1
    /\ Len(positions) = 1
    /\ day.sold_positions[1].round > positions[1].round
    /\ day.sold_positions[1].realized_pnl > 0

(***************************************************************************)
(* C12.  After the sells of one simulated day, if k >= 1 lots were sold    *)
(* the round counter becomes max(1, round before - k), whichever rounds    *)
(* those lots carried; on a day with no sells the sell phase leaves the    *)
(* round counter unchanged.                                                *)
(***************************************************************************)
C12_RoundContraction ==
    [][pc = "sell" =>
          LET k == Len(positions) - Len(positions')
          IN  /\ k = Len(day'.sold_positions)
              /\ current_round' =
                     (IF k >= 1
                      THEN (IF current_round - k >= 1 THEN current_round - k ELSE 1)
                      ELSE current_round)]_vars

\* several lots of low rounds sold on one day while a lot of a higher round
\* stays open
C12_Witness ==
    /\ pc = "buy"
    /\ Len(day.sold_positions) >= 2
    /\ positions # <<>>
    /\ \A j \in 1..Len(day.sold_positions) :
          day.sold_positions[j].round < positions[1].round
    /\ current_round = Len(positions) + 1

(***************************************************************************)
(* C13.  The trading-day counter increases by one on each simulated day    *)
(* that is a trading day (a weekday that is not a listed holiday);         *)
(* exactly when it reaches a positive multiple of 10 the investment-       *)
(* capital base is set to available cash + total open shares x that day's  *)
(* close, on every other day the base is unchanged; the step never changes *)
(* the cash, the open positions or the round counter.                      *)
(***************************************************************************)
C13_Rebalancing ==
    /\ [][(pc = "row" /\ pc' = "week") =>
              LET trading == /\ current_date' % 7 \notin {5, 6}
                             /\ current_date' \notin us_holidays
                  n       == IF trading THEN trading_days_count + 1
                             ELSE trading_days_count
              IN  /\ trading_days_count' = n
                  /\ current_investment_capital' =
                         (IF trading /\ n > 0 /\ n % 10 = 0
                          THEN available_cash + total_shares_of(positions) * close'
                          ELSE current_investment_capital)
                  /\ UNCHANGED <<available_cash, positions, current_round>>]_vars
    /\ [][pc # "row" =>
              UNCHANGED <<trading_days_count, current_investment_capital>>]_vars

\* the 10th trading day with open lots: the base has moved to the total assets
C13_Witness ==
    /\ pc = "week"
    /\ trading_days_count = 10
    /\ positions # <<>>
    /\ current_investment_capital = available_cash + total_shares_of(positions) * close
    /\ current_investment_capital # initial_capital

(***************************************************************************)
(* C14.  Within every simulated day the order is fixed: all sell intents   *)
(* are executed and the round counter is contracted before the buy is      *)
(* evaluated (the buy uses the cash and the slots freed by that day's      *)
(* sells, and a lot bought today cannot be sold today), and the day's      *)
(* record is appended before any back-patch for that day's sells is        *)
(* applied.                                                                *)
(***************************************************************************)
C14_DayOrder ==
    /\ [](pc = "buy" =>
            \A i \in 1..Len(positions) :
                /\ KeptByOwnRegime(positions[i])
                /\ positions[i].buy_date < current_date)
    /\ [](pc \in {"record", "patch"} =>
            /\ \A i \in 1..Len(positions) : KeptByOwnRegime(positions[i])
            /\ day.buy_executed =>
                   /\ positions[Len(positions)].buy_date = current_date
                   /\ positions[Len(positions)].round = day.current_round_before_buy)
    /\ [](pc = "patch" =>
            /\ daily_records # <<>>
            /\ daily_records[Len(daily_records)].date = current_date
            /\ day.sold_positions # <<>>)
    /\ [][pc = "sell" =>
              /\ pc' = "buy"
              /\ ~day'.buy_executed
              /\ Len(positions') <= Len(positions)
              /\ daily_records' = daily_records]_vars
    /\ [][pc = "buy" =>
              /\ pc' = "record"
              /\ day'.sold_positions = day.sold_positions
              /\ SubSeq(positions', 1, Len(positions)) = positions
              /\ daily_records' = daily_records
              /\ day'.buy_executed =>
                     /\ positions'[Len(positions')].round = current_round
                     /\ positions'[Len(positions')].amount <= available_cash]_vars
    /\ [][pc = "record" =>
              /\ Len(daily_records') = Len(daily_records) + 1
              /\ SubSeq(daily_records', 1, Len(daily_records)) = daily_records
              /\ daily_records'[Len(daily_records')].date = current_date
              /\ pc' = (IF day.sold_positions # <<>> THEN "patch" ELSE "row")]_vars

\* a day on which a lot was sold and the buy took the slot the sale freed
C14_Witness ==
    /\ pc = "patch"
    /\ day.buy_executed
    /\ Len(day.sold_positions) = 1
    /\ day.sold_positions[1].round = day.current_round_before_buy
    /\ daily_records[Len(daily_records)].buy_round = day.current_round_before_buy

C16_AbortOnMissingReading ==
    /\ []((row_count = 0 /\ (rsi.prev_week = <<>> \/ rsi.two_weeks_ago = <<>>)) =>
             pc = "error")
    /\ [](pc \in {"sell", "buy", "record", "patch"} =>
             /\ rsi.prev_week # <<>>
             /\ rsi.two_weeks_ago # <<>>
             /\ current_mode \in Modes)
    /\ [](pc = "error" => DOMAIN run_result = {"error"})
    /\ [][pc = "error" => UNCHANGED vars]_vars
    /\ [][(pc = "week" /\ current_week_friday' # current_week_friday) =>
              IF rsi'.prev_week = <<>> \/ rsi'.two_weeks_ago = <<>>
              THEN pc' = "error" /\ UNCHANGED <<ledger, daily_records>>
              ELSE /\ pc' # "error"
                   /\ LET newer == rsi'.prev_week[1]
                           older == rsi'.two_weeks_ago[1]
                       IN  current_mode' =
                               (IF safe_conditions(newer, older) THEN "SF"
                                ELSE IF aggressive_conditions(newer, older) THEN "AG"
                                ELSE current_mode)]_vars

\* a run that has traded and recorded stops at the second week boundary
C16_Witness ==
    /\ pc = "error"
    /\ row_count > 1
    /\ daily_records # <<>>
    /\ positions # <<>>
    /\ rsi.prev_week = <<>>
    /\ rsi.two_weeks_ago # <<>>

(***************************************************************************)
(* C17.  As stated: the error result of a run aborted for a missing        *)
(* reading names the date (week) whose reading could not be resolved and   *)
(* which of the two attempted values is missing.                           *)
(***************************************************************************)
C17_ErrorNamesDateAndValue ==
    pc = "error" =>
        /\ "date" \in DOMAIN run_result.error
        /\ {"prev_week_rsi", "two_weeks_ago_rsi"} \subseteq DOMAIN run_result.error

(***************************************************************************)
(* C18.  determine_mode raises its input-validation error whenever either  *)
(* reading is missing, for every previous regime; it returns no regime     *)
(* then: no default reading is put in, the previous regime is not          *)
(* returned.                                                               *)
(***************************************************************************)
C18_RaisesOnMissing ==
    (call.op = "determine_mode" /\ call.result # <<>>) =>
        IF call.current_rsi = <<>> \/ call.prev_rsi = <<>>
        THEN call.result = <<"ValueError">>
        ELSE call.result[1] \in Modes

\* the newer reading is missing, the previous regime is AGGRESSIVE
C18_Witness ==
    /\ call.op = "determine_mode"
    /\ call.current_rsi = <<>>
    /\ call.prev_rsi = <<60>>
    /\ call.prev_mode = "AG"
    /\ call.result = <<"ValueError">>

(***************************************************************************)
(* C19.  As stated: the regime in force at the start of a run, when no     *)
(* prior regime exists, is chosen from the single most recent reading      *)
(* alone, SAFE if it is >= 50 and AGGRESSIVE otherwise, whichever of the   *)
(* start week's reading and the reading of the week before is taken as     *)
(* the most recent one.                                                    *)
(***************************************************************************)
C19_StartFromSingleReading ==
    (/\ call.op = "check_backtest_starting_state"
     /\ call.result # <<>>
     /\ call.start_week_rsi # <<>>
     /\ call.prev_week_rsi # <<>>
     /\ call.two_weeks_ago_rsi # <<>>) =>
        \E recent \in {call.start_week_rsi[1], call.prev_week_rsi[1]} :
            call.result[1].start_mode = (IF recent >= 50 THEN "SF" ELSE "AG")

(***************************************************************************)
(* C19, amended.  The regime in force at the start of a backtest run whose *)
(* three start readings are resolved is the result of the two-reading rule *)
(* table on the readings of one week and of two weeks before the start     *)
(* week, with SAFE as the previous regime, whatever the start week's own   *)
(* reading is; the choice from the single most recent reading (SAFE if it  *)
(* is >= 50, else AGGRESSIVE) is made only by update_mode, when the trader *)
(* has no regime yet.                                                      *)
(***************************************************************************)
C19_StartRegime ==
    /\ (/\ call.op = "check_backtest_starting_state"
        /\ call.result # <<>>
        /\ call.start_week_rsi # <<>>
        /\ call.prev_week_rsi # <<>>
        /\ call.two_weeks_ago_rsi # <<>>) =>
           LET newer == call.prev_week_rsi[1]
               older == call.two_weeks_ago_rsi[1]
               safe  == \/ (older > 65 /\ older > newer)
                        \/ (older > 40 /\ older < 50 /\ older > newer)
                        \/ (older >= 50 /\ newer < 50)
               aggr  == \/ (older < 50 /\ older < newer /\ newer > 50)
                        \/ (older > 50 /\ older < 60 /\ older < newer)
                        \/ (older < 35 /\ older < newer)
           IN  /\ call.result[1].error = <<>>
               /\ call.result[1].start_mode =
                      (IF safe THEN "SF" ELSE IF aggr THEN "AG" ELSE "SF")
    /\ (/\ call.op = "update_mode"
        /\ call.result # <<>>
        /\ call.mode = "None"
        /\ call.current_rsi # <<>>) =>
           /\ call.result = <<IF call.current_rsi[1] >= 50 THEN "SF" ELSE "AG">>
           /\ current_mode = call.result[1]

\* a start with the readings 45 (two weeks before), 55 (one week before) and
\* 55 (start week): AGGRESSIVE by the rule table, SAFE by the single reading
C19_Witness ==
    /\ call.op = "check_backtest_starting_state"
    /\ call.two_weeks_ago_rsi = <<45>>
    /\ call.prev_week_rsi = <<55>>
    /\ call.start_week_rsi = <<55>>
    /\ call.result # <<>>
    /\ call.result[1].start_mode = "AG"

(***************************************************************************)
(* C20.  As stated: when a lot is sold, the back-patch fills the sell      *)
(* date, the sell price and the realized P&L into the daily record that    *)
(* recorded the buy of that very lot (same acquisition day, price and      *)
(* shares), for every sequence of buys and sells, also when round          *)
(* contraction has let two open lots carry the same round number.  So      *)
(* once the day is through, the record of a buy carries sell fields        *)
(* exactly when its lot is no longer open, and the P&L in it is that of    *)
(* its own lot.                                                            *)
(***************************************************************************)
C20_PatchHitsRecordOfLot ==
    pc \in {"row", "done"} =>
        \A i \in 1..Len(daily_records) :
            LET record == daily_records[i]
                open   == \E j \in 1..Len(positions) :
                              positions[j].buy_date = record.date
            IN  record.buy_quantity > 0 =>
                    /\ (record.sell_date # <<>>) <=> ~open
                    /\ record.sell_date # <<>> =>
                           record.realized_pnl =
                               (record.sell_executed_price - record.buy_executed_price)
                                   * record.buy_quantity

(***************************************************************************)
(* C21                                                                     *)
(***************************************************************************)
\* old and new agree on every field but the four sell fields
SameButSellFields(old, new) ==
    new = [old EXCEPT !.sell_date = new.sell_date,
                      !.sell_executed_price = new.sell_executed_price,
                      !.realized_pnl = new.realized_pnl,
                      !.holding_days = new.holding_days]

\* C21: the record sequence is append-only.  A day with a previous close goes
\* through sells and buy to the append of exactly one record, which carries the
\* day's date; a day without one appends nothing; no other step changes the
\* length.  A record already appended changes only in the back-patch, only in
\* its sell date, sell price, realized P&L and holding days, only if it
\* recorded a buy and had no sell date, and it has a sell date afterwards (so
\* it is patched at most once).
C21_AppendOnly ==
    /\ [](\A i, j \in 1..Len(daily_records) :
             i < j => daily_records[i].date < daily_records[j].date)
    /\ [][/\ pc = "week" => (pc' = "sell" <=> prev_close # <<>>)
          /\ pc = "sell" => pc' = "buy"
          /\ pc = "buy" => pc' = "record"
          /\ pc = "record" =>
                 /\ Len(daily_records') = Len(daily_records) + 1
                 /\ daily_records'[Len(daily_records')].date = current_date
          /\ pc # "record" => Len(daily_records') = Len(daily_records)
          /\ \A i \in 1..Len(daily_records) :
                 daily_records'[i] # daily_records[i] =>
                     /\ pc = "patch"
                     /\ SameButSellFields(daily_records[i], daily_records'[i])
                     /\ daily_records[i].buy_quantity > 0
                     /\ daily_records[i].sell_date = <<>>
                     /\ daily_records'[i].sell_date # <<>>]_vars

\* a run that started without a previous close (its first day has no record)
\* and has two patched records
C21_Witness ==
    /\ pc = "row"
    /\ Len(daily_records) = row_count - 1
    /\ \E i, j \in 1..Len(daily_records) :
           /\ i < j
           /\ daily_records[i].sell_date # <<>>
           /\ daily_records[j].sell_date # <<>>

(***************************************************************************)
(* C22                                                                     *)
(***************************************************************************)
\* the running peak of total_assets up to and including day i, the first day
\* that reached it, and the drawdown of day i as a percentage (a fraction)
RunningPeak(records, i) ==
    CHOOSE m \in {records[j].total_assets : j \in 1..i} :
        \A j \in 1..i : records[j].total_assets <= m

RunningPeakDay(records, i) ==
    CHOOSE j \in 1..i :
        /\ records[j].total_assets = RunningPeak(records, i)
        /\ \A k \in 1..(j - 1) : records[k].total_assets < RunningPeak(records, i)

DrawdownAt(records, i) ==
    <<(RunningPeak(records, i) - records[i].total_assets) * 100,
      RunningPeak(records, i)>>

\* the days on which a drawdown is defined, and those with the largest one
PeakDays(records) == {i \in 1..Len(records) : RunningPeak(records, i) > 0}

WorstDays(records) ==
    {i \in PeakDays(records) :
        \A j \in PeakDays(records) :
            ~frac_greater(DrawdownAt(records, j), DrawdownAt(records, i))}

\* the report names day i: its drawdown, date, value and running-peak date
ReportsDay(result, records, i) ==
    /\ result.mdd_percent[1] * DrawdownAt(records, i)[2]
           = DrawdownAt(records, i)[1] * result.mdd_percent[2]
    /\ result.mdd_date = <<records[i].date>>
    /\ result.mdd_value = records[i].total_assets
    /\ result.mdd_peak_date = <<records[RunningPeakDay(records, i)].date>>

ReportsNoDrawdown(result) ==
    /\ result.mdd_percent[1] = 0
    /\ result.mdd_date = <<>>
    /\ result.mdd_value = 0
    /\ result.mdd_peak_date = <<>>

ReportsOverallPeak(result, records) ==
    IF PeakDays(records) = {}
    THEN result.overall_peak_value = 0 /\ result.overall_peak_date = <<>>
    ELSE LET n == Len(records)
         IN  /\ result.overall_peak_value = RunningPeak(records, n)
             /\ result.overall_peak_date = <<records[RunningPeakDay(records, n)].date>>

C23_WeeklyClassification ==
    /\ [](\A i \in 1..(Len(daily_records) - 1) :
             LET this == daily_records[i]
                 next == daily_records[i + 1]
             IN  IF week_friday(this.date) = week_friday(next.date)
                 THEN next.week = this.week /\ next.mode = this.mode
                 ELSE next.week = this.week + 1)
    /\ [][IF pc = "week" /\ current_week_friday # <<week_friday(current_date)>>
          THEN LET first == current_week_friday = <<>>
                   newer == IF first THEN rsi.prev_week ELSE rsi.current_week
                   older == IF first THEN rsi.two_weeks_ago ELSE rsi.prev_week
               IN  /\ current_mode' = determine_mode(newer, older, current_mode)
                   /\ current_week' = current_week + 1
                   /\ current_week_friday' = <<week_friday(current_date)>>
                   /\ first \/ current_week_friday[1] + 7 = week_friday(current_date)
          ELSE UNCHANGED <<current_mode, current_week, current_week_friday>>]_vars

\* a run in its third week whose records of different weeks carry different
\* regimes
C23_Witness ==
    /\ pc = "row"
    /\ current_week = 3
    /\ \E i, j \in 1..Len(daily_records) :
           /\ daily_records[i].week + 1 = daily_records[j].week
           /\ daily_records[i].mode # daily_records[j].mode

(***************************************************************************)
(* C24                                                                     *)
(***************************************************************************)
\* C24 as stated: the capital base is updated after the day's record has been
\* appended, so it does not change in the steps from the start of the day to
\* the append.
C24_BaseUpdatedAfterRecord ==
    [][current_investment_capital' # current_investment_capital =>
           pc \in {"record", "patch"}]_vars

\* C24, amended: within a day the steps run in the order capital-base update
\* (with the trading-day counter, at the start of the day), regime update at a
\* week boundary, sell evaluation, at most one buy, record append, back-patch;
\* so on a 10th trading day the base in force when the buy is evaluated is the
\* updated one, cash + open shares x the day's close, and a lot bought on that
\* day is sized from it.
C24_OrderOfDay ==
    /\ [][/\ pc = "row" => pc' \in {"week", "done"}
          /\ pc = "week" => pc' \in {"sell", "row"}
          /\ pc = "sell" => pc' = "buy"
          /\ pc = "buy" => pc' = "record"
          /\ pc = "record" => pc' \in {"patch", "row"}
          /\ pc = "patch" => pc' = "row"
          /\ current_investment_capital' # current_investment_capital =>
                 pc = "row" /\ pc' = "week"]_vars
    /\ []((/\ pc = "buy"
           /\ is_trading_day(current_date)
           /\ trading_days_count > 0
           /\ trading_days_count % 10 = 0) =>
             current_investment_capital =
                 available_cash + total_shares_of(positions) * close)
    /\ [][(pc = "buy" /\ day'.buy_executed) =>
             positions'[Len(positions')].shares =
                 (current_investment_capital
                      * get_current_config.split_ratios[current_round])
                     \div (1000 * close)]_vars

\* a lot bought on the 10th trading day whose size differs from the size the
\* base of before the update (the initial capital) gives
C24_Witness ==
    /\ pc = "record"
    /\ day.buy_executed
    /\ is_trading_day(current_date)
    /\ trading_days_count = 10
    /\ current_investment_capital # initial_capital
    /\ day.buy_quantity #
           (initial_capital
                * get_current_config.split_ratios[day.current_round_before_buy])
               \div (1000 * close)

(***************************************************************************)
(* C25                                                                     *)
(***************************************************************************)
\* the weeks a table holds
WeeksOf(rsi_data) ==
    UNION {IF rsi_data[y].weeks = <<>> THEN {}
           ELSE {rsi_data[y].weeks[1][i] : i \in 1..Len(rsi_data[y].weeks[1])} :
           y \in DOMAIN rsi_data}

\* the weeks the fallback chain allows for a date: those that contain it; if
\* there is none those of the latest end not after it; if there is none those
\* of the latest end of all
Containing(weeks, date) == {w \in weeks : w.start <= date /\ date <= w.end}

LatestOf(weeks) == {w \in weeks : \A v \in weeks : v.end <= w.end}

Eligible(weeks, date) ==
    IF Containing(weeks, date) # {} THEN Containing(weeks, date)
    ELSE IF {w \in weeks : w.end <= date} # {}
    THEN LatestOf({w \in weeks : w.end <= date})
    ELSE LatestOf(weeks)

\* C25 as stated: the value of a week the fallback chain allows is returned,
\* and None is returned only for a table that holds no week at all.
C25_AbsentOnlyForNoWeek ==
    (call.op = "get_rsi_from_reference" /\ call.result # <<>>) =>
        LET weeks == WeeksOf(call.rsi_data)
        IN  IF weeks = {} THEN call.result[1] = <<>>
            ELSE /\ call.result[1] # <<>>
                 /\ \E w \in Eligible(weeks, call.date) : call.result[1] = w.rsi

\* C25, amended: what is returned is the rsi field of a week the fallback
\* chain allows, as a number if it converts to one and None if it does not;
\* None is returned only for a table that holds no week at all or for a week
\* whose value does not convert, so a table whose weeks all carry numbers
\* always resolves.
C25_Lookup ==
    (call.op = "get_rsi_from_reference" /\ call.result # <<>>) =>
        LET weeks == WeeksOf(call.rsi_data)
        IN  /\ IF weeks = {} THEN call.result[1] = <<>>
               ELSE \E w \in Eligible(weeks, call.date) : call.result[1] = w.rsi
            /\ call.result[1] = <<>> =>
                   (weeks = {} \/ \E w \in weeks : w.rsi = <<>>)
            /\ (weeks # {} /\ \A w \in weeks : w.rsi # <<>>) => call.result[1] # <<>>

\* a date that precedes every week of a table with weeks in both years: the
\* week of the latest end is returned
C25_Witness ==
    /\ call.op = "get_rsi_from_reference"
    /\ call.result # <<>>
    /\ \A y \in TableYears :
           y \in DOMAIN call.rsi_data /\ call.rsi_data[y].weeks # <<>>
                                      /\ call.rsi_data[y].weeks[1] # <<>>
    /\ \A w \in WeeksOf(call.rsi_data) : call.date < w.start
    /\ Cardinality(WeeksOf(call.rsi_data)) > 1
    /\ call.result[1] # <<>>

(***************************************************************************)
(* C26                                                                     *)
(***************************************************************************)
\* C26: for numeric readings a SAFE condition holds only with older > newer
\* and an AGGRESSIVE condition only with older < newer, so never both; the
\* result is the same when the AGGRESSIVE group is asked first; with
\* older = newer the previous regime is returned.
C26_GroupsExclusive ==
    (/\ call.op = "determine_mode" /\ call.result # <<>>
     /\ call.current_rsi # <<>> /\ call.prev_rsi # <<>>) =>
        LET newer == call.current_rsi[1]
            older == call.prev_rsi[1]
            safe  == safe_conditions(newer, older)
            aggr  == aggressive_conditions(newer, older)
        IN  /\ safe => older > newer
            /\ aggr => older < newer
            /\ ~(safe /\ aggr)
            /\ call.result[1] = (IF aggr THEN "AG"
                                 ELSE IF safe THEN "SF" ELSE call.prev_mode)
            /\ older = newer => call.result[1] = call.prev_mode

\* equal readings of 50 under AGGRESSIVE: the regime is kept
C26_Witness ==
    /\ call.op = "determine_mode"
    /\ call.prev_rsi = <<50>>
    /\ call.current_rsi = <<50>>
    /\ call.prev_mode = "AG"
    /\ call.result = <<"AG">>

(***************************************************************************)
(* C27                                                                     *)
(***************************************************************************)
\* C27: between the steps of a run the round counter is the number of open
\* positions + 1; a sell batch lowers it by exactly the number of lots sold,
\* the floor at 1 of the contraction is never the value taken against a
\* smaller difference.
C27_RoundCounter ==
    /\ [](current_round = Len(positions) + 1)
    /\ [][pc = "sell" =>
             LET sold == Len(positions) - Len(positions')
             IN  /\ sold = Len(day'.sold_positions)
                 /\ current_round' = current_round - sold
                 /\ current_round - sold >= 1]_vars

\* after a batch of two sells that left a lot of the regime before open, the
\* base rebalanced
C27_Witness ==
    /\ pc = "record"
    /\ Len(day.sold_positions) >= 2
    /\ Len(positions) >= 1
    /\ positions[1].mode # current_mode
    /\ current_investment_capital # initial_capital
    /\ current_round = Len(positions) + 1

(***************************************************************************)
(* C28                                                                     *)
(***************************************************************************)
\* C28: at the end of every day (and at its start) the available cash plus the
\* cost bases of the open lots equals the initial capital plus the cumulative
\* realized P&L; the record appended for a day carries the ledger's available
\* cash as cash_balance, the cumulative realized P&L, and cash + open shares x
\* close as total_assets.
C28_MoneyConserved ==
    /\ [](pc \in {"row", "done"} =>
             /\ available_cash + total_buy_cost_of(positions)
                    = initial_capital + total_realized_pnl
             /\ cash_balance = available_cash)
    /\ [][pc = "record" =>
             LET record == daily_records'[Len(daily_records')]
             IN  /\ record.cash_balance = available_cash
                 /\ record.cumulative_realized = total_realized_pnl
                 /\ record.holdings = total_shares_of(positions)
                 /\ record.total_assets =
                        available_cash + total_shares_of(positions) * close]_vars

\* the end of a day with a sell at a profit and a buy, a lot staying open
C28_Witness ==
    /\ pc = "row"
    /\ daily_records # <<>>
    /\ daily_records[Len(daily_records)].daily_realized > 0
    /\ daily_records[Len(daily_records)].buy_quantity > 0
    /\ Len(positions) >= 2
    /\ available_cash + total_buy_cost_of(positions) > initial_capital

(***************************************************************************)
(* C29                                                                     *)
(***************************************************************************)
\* C29: the open positions carry pairwise distinct round numbers, each
\* between 1 and the split count of the regime the position was bought under.
C29_DistinctRounds ==
    /\ \A i, j \in 1..Len(positions) :
           i # j => positions[i].round # positions[j].round
    /\ \A i \in 1..Len(positions) :
           /\ positions[i].round >= 1
           /\ positions[i].round <= mode_config(positions[i].mode).split_count

(***************************************************************************)
(* C30                                                                     *)
(***************************************************************************)
\* C30: at the end of a day that had a previous close (a day with a record) no
\* lot bought on an earlier day is open whose target the close reached or
\* whose holding duration exceeds the max-hold-days of its own regime, and no
\* open lot at all has a holding duration above its max-hold-days: a lot does
\* not stay open past the first simulated day on which its duration exceeds
\* them, so it is sold at the latest on that day when the price series
\* reaches it.
C30_NoDueLotOpen ==
    (/\ pc \in {"row", "done"}
     /\ daily_records # <<>>
     /\ daily_records[Len(daily_records)].date = current_date) =>
        /\ \A i \in 1..Len(positions) :
               positions[i].buy_date < current_date =>
                   ~OwnTarget(positions[i]) /\ ~OwnExpiry(positions[i])
        /\ \A i \in 1..Len(positions) :
               HoldingDays(positions[i], current_date)
                   <= mode_config(positions[i].mode).max_hold_days

\* the end of a day on which a lot was sold for its holding period (at no
\* profit) while another lot stays open at the limit of its own
C30_Witness ==
    /\ pc = "row"
    /\ daily_records # <<>>
    /\ daily_records[Len(daily_records)].date = current_date
    /\ daily_records[Len(daily_records)].daily_realized <= 0
    /\ \E i \in 1..Len(daily_records) :
           daily_records[i].sell_date = <<current_date>>
    /\ \E i \in 1..Len(positions) :
           HoldingDays(positions[i], current_date)
               = mode_config(positions[i].mode).max_hold_days
====
